---- MODULE Spec2Model ----
(***************************************************************************)
(* A model of grokify/ffutil: the ffmpeg Command builder (its setters,     *)
(* Build, String, Run and formatDuration), the ffprobe wrappers (Probe,    *)
(* Duration, Resolution, HasAudio, HasVideo), the encoder queries and the  *)
(* version queries.                                                        *)
(*                                                                         *)
(* Spec         the Command builder: a Command made by New(), up to        *)
(*              MaxCalls builder calls, and Build() called on it.          *)
(* UseSpec      a Command put to use: a few builder calls, then Build(),   *)
(*              String() and Run().                                        *)
(* ProbeSpec    the prober: one media file (what ffprobe answers for its   *)
(*              path) and the query functions called on it.                *)
(* EncoderSpec  one machine (its GOOS and its `ffmpeg -encoders` table)    *)
(*              and the encoder queries called on it.                      *)
(* VersionSpec  one machine (its `ffmpeg -version` and `ffprobe -version`) *)
(*              and the version queries called on it.                      *)
(*                                                                         *)
(* Go strings are TLA+ strings; a float64 is a record [k, v]: k = "fin"    *)
(* with v in units of 1/FUnit second, k = "inf" with v the sign, or        *)
(* k = "nan".  A time.Duration is counted in milliseconds.                 *)
(***************************************************************************)
EXTENDS Integers, Sequences, FiniteSets, TLC

VARIABLES
    c,          \* the Command under construction (the *Command all calls share)
    ncalls,     \* builder calls made so far
    nbuilt,     \* Build() calls made since the last builder call
    args,       \* result of the latest Build() since the last builder call
    prevArgs,   \* result of the Build() before it, when nbuilt = 2
    str,        \* result of the latest String() since the last builder call
    ran,        \* the latest Run() since the last builder call and its outcome
    file,       \* what the ffprobe process answers for the probed path
    host,       \* the machine: its GOOS and what ffmpeg and ffprobe answer
    last        \* the latest query call and what it returned

cmdVars == <<c, ncalls, nbuilt, args, prevArgs, str, ran>>
probeVars == <<file, last>>
vars == <<c, ncalls, nbuilt, args, prevArgs, str, ran, file, host, last>>

(***************************************************************************)
(* Bounds.                                                                 *)
(***************************************************************************)
MaxCalls == 3
MaxStreams == 3

(***************************************************************************)
(* float64 values.                                                         *)
(***************************************************************************)
FUnit == 10000

Fin(v) == [k |-> "fin", v |-> v]
PosInf == [k |-> "inf", v |-> 1]
NegInf == [k |-> "inf", v |-> -1]
NaN == [k |-> "nan", v |-> 0]

\* f > 0 on float64: false for NaN, true for +Inf.
FloatGtZero(f) ==
    CASE f.k = "fin" -> f.v > 0
      [] f.k = "inf" -> f.v > 0
      [] OTHER -> FALSE

Digit(d) == SubSeq("0123456789", d + 1, d + 1)

RECURSIVE NatToStr(_)
NatToStr(n) == IF n < 10 THEN Digit(n) ELSE NatToStr(n \div 10) \o Digit(n % 10)

\* strconv.Itoa
Itoa(n) == IF n < 0 THEN "-" \o NatToStr(0 - n) ELSE NatToStr(n)

\* strconv.FormatFloat(f, 'f', 3, 64): round to nearest thousandth (ties to
\* even), then integer part, ".", three digits; the specials have no digits.
FormatFloat3(f) ==
    CASE f.k = "nan" -> "NaN"
      [] f.k = "inf" -> IF f.v > 0 THEN "+Inf" ELSE "-Inf"
      [] OTHER ->
            LET a == IF f.v < 0 THEN 0 - f.v ELSE f.v
                step == FUnit \div 1000
                q == a \div step
                r == a % step
                up == (2 * r > step) \/ (2 * r = step /\ q % 2 = 1)
                m == IF up THEN q + 1 ELSE q
                frac == m % 1000
            IN  (IF f.v < 0 THEN "-" ELSE "")
                    \o NatToStr(m \div 1000) \o "."
                    \o Digit(frac \div 100) \o Digit((frac \div 10) % 10)
                    \o Digit(frac % 10)

\* A rendering with two digits after the point.
formatDurationTwoDigits(seconds) ==
    LET s == FormatFloat3(seconds) IN SubSeq(s, 1, Len(s) - 1)

formatDuration(seconds) == FormatFloat3(seconds)

(***************************************************************************)
(* The Command builder.                                                    *)
(***************************************************************************)
Paths == {"input.mp4", "audio.mp3"}
RawPaths == {"input.raw"}
ImagePaths == {"image.png"}
ClipPaths == {"clip.mp4"}
Formats == {"rawvideo", ""}
FrameRates == {30, 0}
OutPaths == {"output.mp4", ""}
VideoCodecs == {"libx264", ""}
AudioCodecs == {"aac", ""}
Sizes == {<<1920, 1080>>, <<0, 720>>}
CRFs == {23, 0}
Presets == {"medium"}
PixelFormats == {"yuv420p"}
Bitrates == {"5M"}
AudioRates == {44100, 0}
ChannelCounts == {2}
Filters == {"scale=1280:720"}
MetaKeys == {"title", "artist"}
MetaValues == {"My Video", "x"}
ExtraArgLists == {<<"-movflags", "+faststart">>, <<"-shortest">>}
\* Seconds: 10.5, 5, 0.0004, 1.2346, 0, -1 and the values that are no number.
Durations == {Fin(105000), Fin(50000), Fin(4), Fin(0), PosInf}
StartTimes == {Fin(50000), Fin(0), Fin(-10000), NaN, NegInf}
ClipDurations == {Fin(12346), Fin(0), PosInf}

MkInput(path, format, frameRate, loop, duration, startTime) ==
    [path |-> path, format |-> format, frameRate |-> frameRate, loop |-> loop,
     duration |-> duration, startTime |-> startTime]

\* The empty metadata map.
EmptyMap == [k \in {} |-> ""]

New ==
    [inputs |-> <<>>, outputPath |-> "", videoCodec |-> "", audioCodec |-> "",
     videoBitrate |-> "", audioBitrate |-> "", width |-> 0, height |-> 0,
     fps |-> 0, crf |-> 0, preset |-> "", pixelFormat |-> "", audioRate |-> 0,
     channels |-> 0, duration |-> Fin(0), startTime |-> Fin(0),
     copyVideo |-> FALSE, copyAudio |-> FALSE, noAudio |-> FALSE,
     noVideo |-> FALSE, overwrite |-> TRUE, extraArgs |-> <<>>,
     filterVideo |-> "", filterAudio |-> "", filterComplex |-> "",
     metadata |-> EmptyMap]

\* No String() result and no Run() yet.
NoString == ""
NoRun == [outcome |-> "none"]

\* What every builder call does to the bookkeeping of the model.
Called ==
    /\ ncalls < MaxCalls
    /\ ncalls' = ncalls + 1
    /\ nbuilt' = 0
    /\ args' = <<>>
    /\ prevArgs' = <<>>
    /\ str' = NoString
    /\ ran' = NoRun
    /\ UNCHANGED <<file, host, last>>

Input(path) ==
    /\ c' = [c EXCEPT !.inputs = Append(@, MkInput(path, "", 0, FALSE, Fin(0), Fin(0)))]
    /\ Called

InputWithFormat(path, format) ==
    /\ c' = [c EXCEPT !.inputs = Append(@, MkInput(path, format, 0, FALSE, Fin(0), Fin(0)))]
    /\ Called

InputImage(path, frameRate) ==
    /\ c' = [c EXCEPT !.inputs = Append(@, MkInput(path, "", frameRate, TRUE, Fin(0), Fin(0)))]
    /\ Called

InputWithDuration(path, duration) ==
    /\ c' = [c EXCEPT !.inputs = Append(@, MkInput(path, "", 0, FALSE, duration, Fin(0)))]
    /\ Called

Output(path) ==
    /\ c' = [c EXCEPT !.outputPath = path]
    /\ Called

\* A VideoCodec that leaves the copy flag as it was.
VideoCodecNoClear(codec) ==
    /\ c' = [c EXCEPT !.videoCodec = codec]
    /\ Called

VideoCodec(codec) ==
    /\ c' = [c EXCEPT !.videoCodec = codec, !.copyVideo = FALSE]
    /\ Called

AudioCodec(codec) ==
    /\ c' = [c EXCEPT !.audioCodec = codec, !.copyAudio = FALSE]
    /\ Called

CopyVideo ==
    /\ c' = [c EXCEPT !.copyVideo = TRUE, !.videoCodec = ""]
    /\ Called

CopyAudio ==
    /\ c' = [c EXCEPT !.copyAudio = TRUE, !.audioCodec = ""]
    /\ Called

NoAudio ==
    /\ c' = [c EXCEPT !.noAudio = TRUE]
    /\ Called

NoVideo ==
    /\ c' = [c EXCEPT !.noVideo = TRUE]
    /\ Called

\* A Size that also drops the frame rate.
SizeResetsFPS(width, height) ==
    /\ c' = [c EXCEPT !.width = width, !.height = height, !.fps = 0]
    /\ Called

Size(width, height) ==
    /\ c' = [c EXCEPT !.width = width, !.height = height]
    /\ Called

FPS(fps) ==
    /\ c' = [c EXCEPT !.fps = fps]
    /\ Called

\* The Command after CRF(crf).
SetCRF(cmd, crf) == [cmd EXCEPT !.crf = crf]

CRF(crf) ==
    /\ c' = SetCRF(c, crf)
    /\ Called

Preset(preset) ==
    /\ c' = [c EXCEPT !.preset = preset]
    /\ Called

PixelFormat(format) ==
    /\ c' = [c EXCEPT !.pixelFormat = format]
    /\ Called

VideoBitrate(bitrate) ==
    /\ c' = [c EXCEPT !.videoBitrate = bitrate]
    /\ Called

AudioBitrate(bitrate) ==
    /\ c' = [c EXCEPT !.audioBitrate = bitrate]
    /\ Called

AudioRate(rate) ==
    /\ c' = [c EXCEPT !.audioRate = rate]
    /\ Called

Channels(channels) ==
    /\ c' = [c EXCEPT !.channels = channels]
    /\ Called

Duration(seconds) ==
    /\ c' = [c EXCEPT !.duration = seconds]
    /\ Called

StartTime(seconds) ==
    /\ c' = [c EXCEPT !.startTime = seconds]
    /\ Called

Overwrite(overwrite) ==
    /\ c' = [c EXCEPT !.overwrite = overwrite]
    /\ Called

VideoFilter(filter) ==
    /\ c' = [c EXCEPT !.filterVideo = filter]
    /\ Called

AudioFilter(filter) ==
    /\ c' = [c EXCEPT !.filterAudio = filter]
    /\ Called

FilterComplex(filter) ==
    /\ c' = [c EXCEPT !.filterComplex = filter]
    /\ Called

Metadata(key, value) ==
    /\ c' = [c EXCEPT !.metadata =
                [k \in DOMAIN @ \cup {key} |-> IF k = key THEN value ELSE @[k]]]
    /\ Called

Args(extra) ==
    /\ c' = [c EXCEPT !.extraArgs = @ \o extra]
    /\ Called

(***************************************************************************)
(* Build: the argument list, section by section as Build appends it.       *)
(* `order` is the order in which the range over c.metadata visits the      *)
(* keys: Go leaves the iteration order of a map unspecified and varies it  *)
(* from one range loop to the next.                                        *)
(***************************************************************************)
IfStr(flag, s) == IF s # "" THEN <<flag, s>> ELSE <<>>
IfInt(flag, n) == IF n > 0 THEN <<flag, Itoa(n)>> ELSE <<>>
IfDur(flag, f) == IF FloatGtZero(f) THEN <<flag, formatDuration(f)>> ELSE <<>>

GlobalOptions(cmd) == IF cmd.overwrite THEN <<"-y">> ELSE <<>>

OneInput(input) ==
    (IF input.loop THEN <<"-loop", "1">> ELSE <<>>)
        \o IfInt("-framerate", input.frameRate)
        \o IfStr("-f", input.format)
        \o IfDur("-t", input.duration)
        \o IfDur("-ss", input.startTime)
        \o <<"-i", input.path>>

RECURSIVE InputOptions(_)
InputOptions(inputs) ==
    IF inputs = <<>> THEN <<>>
    ELSE OneInput(Head(inputs)) \o InputOptions(Tail(inputs))

FilterOptions(cmd) ==
    IfStr("-filter_complex", cmd.filterComplex)
        \o IfStr("-vf", cmd.filterVideo)
        \o IfStr("-af", cmd.filterAudio)

\* A selector that looks at the codec before the removal flag.
VideoSelectorCodecFirst(cmd) ==
    IF cmd.copyVideo THEN <<"-c:v", "copy">>
    ELSE IF cmd.videoCodec # "" THEN <<"-c:v", cmd.videoCodec>>
    ELSE IF cmd.noVideo THEN <<"-vn">>
    ELSE <<>>

VideoSelector(cmd) ==
    IF cmd.noVideo THEN <<"-vn">>
    ELSE IF cmd.copyVideo THEN <<"-c:v", "copy">>
    ELSE IF cmd.videoCodec # "" THEN <<"-c:v", cmd.videoCodec>>
    ELSE <<>>

VideoOptions(cmd) ==
    VideoSelector(cmd)
        \o (IF cmd.width > 0 /\ cmd.height > 0
            THEN <<"-s", Itoa(cmd.width) \o "x" \o Itoa(cmd.height)>> ELSE <<>>)
        \o IfInt("-r", cmd.fps)
        \o IfInt("-crf", cmd.crf)
        \o IfStr("-preset", cmd.preset)
        \o IfStr("-pix_fmt", cmd.pixelFormat)
        \o IfStr("-b:v", cmd.videoBitrate)

AudioSelector(cmd) ==
    IF cmd.noAudio THEN <<"-an">>
    ELSE IF cmd.copyAudio THEN <<"-c:a", "copy">>
    ELSE IF cmd.audioCodec # "" THEN <<"-c:a", cmd.audioCodec>>
    ELSE <<>>

AudioOptions(cmd) ==
    AudioSelector(cmd)
        \o IfStr("-b:a", cmd.audioBitrate)
        \o IfInt("-ar", cmd.audioRate)
        \o IfInt("-ac", cmd.channels)

\* The two overall trims in the other order.
OutputOptionsSwapped(cmd) ==
    IfDur("-ss", cmd.startTime) \o IfDur("-t", cmd.duration)

OutputOptions(cmd) ==
    IfDur("-t", cmd.duration) \o IfDur("-ss", cmd.startTime)

RECURSIVE MetadataOptions(_, _)
MetadataOptions(m, order) ==
    IF order = <<>> THEN <<>>
    ELSE <<"-metadata", Head(order) \o "=" \o m[Head(order)]>>
            \o MetadataOptions(m, Tail(order))

BuildArgs(cmd, order) ==
    GlobalOptions(cmd)
        \o InputOptions(cmd.inputs)
        \o FilterOptions(cmd)
        \o VideoOptions(cmd)
        \o AudioOptions(cmd)
        \o OutputOptions(cmd)
        \o MetadataOptions(cmd.metadata, order)
        \o cmd.extraArgs
        \o (IF cmd.outputPath # "" THEN <<cmd.outputPath>> ELSE <<>>)

\* The orders in which a range loop may visit the keys of map m.
RangeOrders(m) ==
    {o \in [1..Cardinality(DOMAIN m) -> DOMAIN m] :
        \A i, j \in DOMAIN o : i # j => o[i] # o[j]}

\* A Build() that drains the passthrough list it appends.
BuildDrainsExtraArgs ==
    /\ nbuilt < 2
    /\ \E order \in RangeOrders(c.metadata) : args' = BuildArgs(c, order)
    /\ prevArgs' = args
    /\ nbuilt' = nbuilt + 1
    /\ c' = [c EXCEPT !.extraArgs = <<>>]
    /\ UNCHANGED <<ncalls, str, ran, file, host, last>>

\* Build() reads the Command and returns the list; the Command is unchanged.
Build ==
    /\ nbuilt < 2
    /\ \E order \in RangeOrders(c.metadata) : args' = BuildArgs(c, order)
    /\ prevArgs' = args
    /\ nbuilt' = nbuilt + 1
    /\ UNCHANGED <<c, ncalls, str, ran, file, host, last>>

(***************************************************************************)
(* String: the command line as one text.                                   *)
(***************************************************************************)
CharAt(s, i) == SubSeq(s, i, i)

\* strings.ContainsAny
ContainsAny(s, chars) ==
    \E i \in 1..Len(s) : \E j \in 1..Len(chars) : CharAt(s, i) = CharAt(chars, j)

\* One character as fmt's %q (strconv.Quote) writes it inside the quotes.
QuoteChar(ch) ==
    IF ch = "\"" THEN "\\\""
    ELSE IF ch = "\\" THEN "\\\\"
    ELSE IF ch = "\n" THEN "\\n"
    ELSE IF ch = "\t" THEN "\\t"
    ELSE IF ch = "\r" THEN "\\r"
    ELSE ch

RECURSIVE QuoteBody(_)
QuoteBody(s) ==
    IF Len(s) = 0 THEN ""
    ELSE QuoteChar(CharAt(s, 1)) \o QuoteBody(SubSeq(s, 2, Len(s)))

\* fmt.Sprintf("%q", arg)
Quote(arg) == "\"" \o QuoteBody(arg) \o "\""

\* strings.Join
RECURSIVE Join(_, _)
Join(elems, sep) ==
    IF Len(elems) = 0 THEN ""
    ELSE IF Len(elems) = 1 THEN elems[1]
    ELSE elems[1] \o sep \o Join(Tail(elems), sep)

\* A String() that quotes only for a space.
QuoteArgSpaceOnly(arg) == IF ContainsAny(arg, " ") THEN Quote(arg) ELSE arg

QuoteArg(arg) == IF ContainsAny(arg, " \t\n\"'") THEN Quote(arg) ELSE arg

\* What String() returns when its Build() returns built.
StringOf(built) ==
    "ffmpeg " \o Join([i \in DOMAIN built |-> QuoteArg(built[i])], " ")

\* String() calls Build() and renders the list; the Command is unchanged.
String ==
    /\ \E order \in RangeOrders(c.metadata) : str' = StringOf(BuildArgs(c, order))
    /\ UNCHANGED <<c, ncalls, nbuilt, args, prevArgs, ran, file, host, last>>

(***************************************************************************)
(* Run: one ffmpeg process on the rendered list.  What becomes of the      *)
(* process is the environment's choice: it does not start (no ffmpeg on    *)
(* the PATH, or a context that is already done), it exits zero, it exits   *)
(* non-zero, or it is killed because the context is cancelled.             *)
(***************************************************************************)
ExecOutcomes == {"nostart", "exit0", "exit1", "killed"}
RunStderrTexts == {"", "Unknown encoder"}

\* The processes cmd.Run() has started when it returns.
Started(outcome) == IF outcome = "nostart" THEN 0 ELSE 1

\* A Run() that takes a killed process for a finished one.
RunErrorNilWhenKilled(outcome, stderr) ==
    IF outcome \in {"exit0", "killed"} THEN [kind |-> "nil", text |-> ""]
    ELSE [kind |-> "ffmpeg failed", text |-> stderr]

\* The error Run() returns: cmd.Run()'s error wrapped with the stderr text.
RunError(outcome, stderr) ==
    IF outcome = "exit0" THEN [kind |-> "nil", text |-> ""]
    ELSE [kind |-> "ffmpeg failed", text |-> stderr]

Run ==
    /\ \E order \in RangeOrders(c.metadata), outcome \in ExecOutcomes,
          stderr \in RunStderrTexts :
           ran' = [outcome |-> outcome, stderr |-> stderr,
                   argv |-> BuildArgs(c, order), started |-> Started(outcome),
                   err |-> RunError(outcome, stderr)]
    /\ UNCHANGED <<c, ncalls, nbuilt, args, prevArgs, str, file, host, last>>

(***************************************************************************)
(* The Command builder's specification.                                    *)
(***************************************************************************)
NoFile == [run |-> "none"]
NoHost == [goos |-> "none"]
NoCall == [op |-> "none"]

Init ==
    /\ c = New
    /\ ncalls = 0
    /\ nbuilt = 0
    /\ args = <<>>
    /\ prevArgs = <<>>
    /\ str = NoString
    /\ ran = NoRun
    /\ file = NoFile
    /\ host = NoHost
    /\ last = NoCall

Next ==
    \/ \E path \in Paths : Input(path)
    \/ \E path \in RawPaths, format \in Formats : InputWithFormat(path, format)
    \/ \E path \in ImagePaths, frameRate \in FrameRates : InputImage(path, frameRate)
    \/ \E path \in ClipPaths, duration \in ClipDurations : InputWithDuration(path, duration)
    \/ \E path \in OutPaths : Output(path)
    \/ \E codec \in VideoCodecs : VideoCodec(codec)
    \/ \E codec \in AudioCodecs : AudioCodec(codec)
    \/ CopyVideo
    \/ CopyAudio
    \/ NoAudio
    \/ NoVideo
    \/ \E wh \in Sizes : Size(wh[1], wh[2])
    \/ \E fps \in FrameRates : FPS(fps)
    \/ \E crf \in CRFs : CRF(crf)
    \/ \E preset \in Presets : Preset(preset)
    \/ \E format \in PixelFormats : PixelFormat(format)
    \/ \E bitrate \in Bitrates : VideoBitrate(bitrate)
    \/ \E bitrate \in Bitrates : AudioBitrate(bitrate)
    \/ \E rate \in AudioRates : AudioRate(rate)
    \/ \E channels \in ChannelCounts : Channels(channels)
    \/ \E seconds \in Durations : Duration(seconds)
    \/ \E seconds \in StartTimes : StartTime(seconds)
    \/ \E overwrite \in BOOLEAN : Overwrite(overwrite)
    \/ \E filter \in Filters : VideoFilter(filter)
    \/ \E filter \in Filters : AudioFilter(filter)
    \/ \E filter \in Filters : FilterComplex(filter)
    \/ \E key \in MetaKeys, value \in MetaValues : Metadata(key, value)
    \/ \E extra \in ExtraArgLists : Args(extra)
    \/ Build

Spec == Init /\ [][Next]_vars

(***************************************************************************)
(* The specification of a Command put to use: a few builder calls with     *)
(* texts that String() has to quote, then Build(), String() and Run().     *)
(***************************************************************************)
QuotablePaths == {"input.mp4", "my video.mp4"}
QuotableArgLists == {<<"it's", "say \"hi\"\tnow\n">>}
QuotableValues == {"My Video"}

UseNext ==
    \/ \E path \in QuotablePaths : Input(path)
    \/ Output("output.mp4")
    \/ VideoCodec("libx264")
    \/ Overwrite(FALSE)
    \/ \E key \in MetaKeys, value \in QuotableValues : Metadata(key, value)
    \/ \E extra \in QuotableArgLists : Args(extra)
    \/ Build
    \/ String
    \/ Run

UseSpec == Init /\ [][UseNext]_vars

(***************************************************************************)
(* Reading a rendered argument list back.                                  *)
(***************************************************************************)
Count(seq, tok) == Cardinality({i \in DOMAIN seq : seq[i] = tok})

IsDigit(ch) == \E d \in 0..9 : ch = Digit(d)
DigitVal(ch) == CHOOSE d \in 0..9 : ch = Digit(d)
AllDigits(s) == Len(s) > 0 /\ \A i \in 1..Len(s) : IsDigit(CharAt(s, i))

RECURSIVE DigitsToNat(_)
DigitsToNat(s) ==
    IF Len(s) = 0 THEN 0
    ELSE 10 * DigitsToNat(SubSeq(s, 1, Len(s) - 1)) + DigitVal(CharAt(s, Len(s)))

\* Digits, a point, exactly three digits.
IsFixed3(s) ==
    /\ Len(s) >= 5
    /\ CharAt(s, Len(s) - 3) = "."
    /\ AllDigits(SubSeq(s, 1, Len(s) - 4))
    /\ AllDigits(SubSeq(s, Len(s) - 2, Len(s)))

\* The thousandths a fixed-point text stands for.
Fixed3Millis(s) ==
    1000 * DigitsToNat(SubSeq(s, 1, Len(s) - 4)) + DigitsToNat(SubSeq(s, Len(s) - 2, Len(s)))

\* The text is the float's value to the nearest thousandth.
RendersValue(s, f) ==
    /\ f.k = "fin"
    /\ IsFixed3(s)
    /\ LET d == Fixed3Millis(s) * (FUnit \div 1000) - f.v
       IN  2 * d <= FUnit \div 1000 /\ 2 * d >= 0 - (FUnit \div 1000)

InputFlags == <<"-loop", "-framerate", "-f", "-t", "-ss", "-i">>
OutputFlags == <<"-filter_complex", "-vf", "-af", "-c:v", "-s", "-r", "-crf",
                 "-preset", "-pix_fmt", "-b:v", "-c:a", "-b:a", "-ar", "-ac",
                 "-t", "-ss", "-metadata">>
\* The selectors that take no value stand where -c:v and -c:a stand.
Alias(tok) == IF tok = "-vn" THEN "-c:v" ELSE IF tok = "-an" THEN "-c:a" ELSE tok
IsFlagOf(flags, tok) == \E r \in DOMAIN flags : flags[r] = Alias(tok)
RankIn(flags, tok) == CHOOSE r \in DOMAIN flags : flags[r] = Alias(tok)
TakesValue(tok) == tok \notin {"-y", "-vn", "-an"}

\* The parts of a rendered list a, for the Command cmd it was rendered from:
\* [1, InStart) the global flag, [InStart, OutStart) the inputs,
\* [OutStart, ExtraStart) the output options, then passthrough and output path.
InStart(a) == IF Len(a) > 0 /\ a[1] = "-y" THEN 2 ELSE 1
IPositions(a) == {i \in DOMAIN a : a[i] = "-i"}
OutStart(a) ==
    IF IPositions(a) = {} THEN InStart(a)
    ELSE 2 + CHOOSE i \in IPositions(a) : \A j \in IPositions(a) : j <= i
NOut(cmd) == IF cmd.outputPath # "" THEN 1 ELSE 0
ExtraStart(a, cmd) == Len(a) - NOut(cmd) - Len(cmd.extraArgs) + 1

\* In a[from..to-1] every word is a flag of `flags` or the value of the flag
\* before it, and the flags stand in the order of `flags`; a flag may repeat
\* only if it is `rep`, and the count starts again after each `reset` flag.
Ordered(a, from, to, flags, rep, reset) ==
    /\ \A i \in from..(to - 1) :
        \/ IsFlagOf(flags, a[i])
        \/ (i > from /\ IsFlagOf(flags, a[i - 1]) /\ TakesValue(a[i - 1]))
    /\ \A i, j \in from..(to - 1) :
        (/\ i < j
         /\ IsFlagOf(flags, a[i]) /\ IsFlagOf(flags, a[j])
         /\ ~\E k \in i..(j - 1) : a[k] = reset)
            => \/ RankIn(flags, a[i]) < RankIn(flags, a[j])
               \/ (a[i] = rep /\ a[j] = rep)

(***************************************************************************)
(* Claims about the Command builder (checked under Spec).                  *)
(***************************************************************************)

\* C1: after any builder calls, no stream has both its copy flag and a
\* non-empty explicit codec, and a rendered list holds at most one -c:v and
\* at most one -c:a selector.
C1_CopyCodecExclusive ==
    /\ ~(c.copyVideo /\ c.videoCodec # "")
    /\ ~(c.copyAudio /\ c.audioCodec # "")
    /\ nbuilt > 0 => /\ Count(args, "-c:v") <= 1
                     /\ Count(args, "-c:a") <= 1
                     /\ (c.copyVideo /\ ~c.noVideo) => \E i \in DOMAIN args :
                            args[i] = "-c:v" /\ args[i + 1] = "copy"
                     /\ (c.copyAudio /\ ~c.noAudio) => \E i \in DOMAIN args :
                            args[i] = "-c:a" /\ args[i + 1] = "copy"

\* C1 witness: rendered after at least two calls, with an explicit video codec
\* and a clear video copy flag beside an audio copy flag with no audio codec.
C1_Witness ==
    /\ nbuilt > 0
    /\ ncalls >= 2
    /\ ~c.copyVideo
    /\ c.videoCodec = "libx264"
    /\ c.copyAudio
    /\ c.audioCodec = ""
    /\ Count(args, "-c:v") = 1
    /\ Count(args, "-c:a") = 1

\* C2 as stated: two Build() calls with no builder call in between return
\* identical argument lists.
C2_BuildTwiceIdentical == nbuilt = 2 => args = prevArgs

\* C2 amended: two Build() calls with no builder call in between return lists
\* of the same length that differ at most in the order of the -metadata
\* values (same words, every word outside a -metadata value at the same
\* place), and identical lists when the Command holds at most one metadata key.
C2_BuildTwiceSameUpToMetadataOrder ==
    nbuilt = 2 =>
        /\ Len(args) = Len(prevArgs)
        /\ \A i \in DOMAIN args :
            \/ args[i] = prevArgs[i]
            \/ (i > 1 /\ args[i - 1] = "-metadata" /\ prevArgs[i - 1] = "-metadata")
        /\ \A i \in DOMAIN args : Count(args, args[i]) = Count(prevArgs, args[i])
        /\ Cardinality(DOMAIN c.metadata) <= 1 => args = prevArgs

\* C2 witness: rendered twice with two metadata keys, in two orders.
C2_Witness ==
    /\ nbuilt = 2
    /\ Cardinality(DOMAIN c.metadata) = 2
    /\ args # prevArgs

\* C3: a rendered list is -y (if overwrite); then per input, in the order
\* added, its flags in the order -loop, -framerate, -f, -t, -ss closed by
\* -i <path>; then the output options in the order of OutputFlags; then the
\* passthrough arguments as given; then the output path, last, if non-empty.
C3_BuildOrder ==
    nbuilt > 0 =>
        /\ \A i \in DOMAIN args : args[i] = "-y" => i = 1
        /\ c.overwrite => Len(args) > 0 /\ args[1] = "-y"
        /\ Cardinality(IPositions(args)) = Len(c.inputs)
        /\ \A i \in IPositions(args) :
            /\ i < ExtraStart(args, c)
            /\ args[i + 1] = c.inputs[Cardinality({j \in IPositions(args) : j <= i})].path
        /\ OutStart(args) <= ExtraStart(args, c)
        /\ Ordered(args, InStart(args), OutStart(args), InputFlags, "", "-i")
        /\ \A i \in InStart(args)..(OutStart(args) - 1) :
            (args[i] # "-i" /\ IsFlagOf(InputFlags, args[i]))
                => \E k \in IPositions(args) : k > i
        /\ Ordered(args, OutStart(args), ExtraStart(args, c), OutputFlags, "-metadata", "")
        /\ Count(args, "-metadata") = Cardinality(DOMAIN c.metadata)
        /\ SubSeq(args, ExtraStart(args, c), Len(args) - NOut(c)) = c.extraArgs
        /\ c.outputPath # "" => args[Len(args)] = c.outputPath

\* C3 witness: two inputs, the first with its own flags, an output path.
C3_Witness ==
    /\ nbuilt > 0
    /\ Len(c.inputs) = 2
    /\ c.inputs[1].loop
    /\ c.inputs[1].frameRate > 0
    /\ c.outputPath # ""

\* The trim values of a Command in the order Build reads them, each with the
\* flag it is rendered under.
RECURSIVE InputTrims(_)
InputTrims(inputs) ==
    IF inputs = <<>> THEN <<>>
    ELSE <<[flag |-> "-t", val |-> Head(inputs).duration],
           [flag |-> "-ss", val |-> Head(inputs).startTime]>>
            \o InputTrims(Tail(inputs))

AllTrims(cmd) ==
    InputTrims(cmd.inputs)
        \o <<[flag |-> "-t", val |-> cmd.duration],
             [flag |-> "-ss", val |-> cmd.startTime]>>

TrimIsPositive(t) == FloatGtZero(t.val)
PositiveTrims(cmd) == SelectSeq(AllTrims(cmd), TrimIsPositive)

\* Where a rendered list holds a trim flag (outside the passthrough words).
TrimPositions(a, cmd) == {i \in 1..(ExtraStart(a, cmd) - 1) : a[i] \in {"-t", "-ss"}}

\* C10 as stated: every trim value in a rendered list is fixed-point text with
\* exactly three digits after the point, and a trim option is rendered only
\* for a value greater than zero.
C10_TrimThreeDigits ==
    nbuilt > 0 =>
        /\ Cardinality(TrimPositions(args, c)) = Len(PositiveTrims(c))
        /\ \A i \in TrimPositions(args, c) : IsFixed3(args[i + 1])

\* C10 amended: a trim option is rendered exactly for the values greater than
\* zero, in the order Build reads them; every finite one is rendered as its
\* value to the nearest thousandth, as digits, a point and exactly three
\* digits; positive infinity is rendered as "+Inf".
C10_FiniteTrimThreeDigits ==
    nbuilt > 0 =>
        /\ Cardinality(TrimPositions(args, c)) = Len(PositiveTrims(c))
        /\ \A i \in TrimPositions(args, c) :
            LET t == PositiveTrims(c)[Cardinality({j \in TrimPositions(args, c) : j <= i})]
            IN  /\ args[i] = t.flag
                /\ IF t.val.k = "fin" THEN RendersValue(args[i + 1], t.val)
                   ELSE args[i + 1] = "+Inf"

\* C10 witness: 10.5 rendered as 10.500 for the overall duration, next to a
\* per-input duration that rounds.
C10_Witness ==
    /\ nbuilt > 0
    /\ c.duration = Fin(105000)
    /\ \E i \in DOMAIN args : args[i] = "-t" /\ args[i + 1] = "10.500"
    /\ \E i \in DOMAIN args : args[i] = "-t" /\ args[i + 1] = "1.235"

(***************************************************************************)
(* The prober.  `file` is what the ffprobe process answers for the probed  *)
(* path: whether it runs (run), what it writes to stderr, whether its      *)
(* stdout decodes into ffprobeOutput (decode), and the decoded report.  A  *)
(* field the JSON leaves out decodes to Go's zero value, so an absent      *)
(* duration, bit_rate or sample_rate is the empty text.                    *)
(***************************************************************************)
IsSpace(ch) == ch \in {" ", "\t", "\n", "\r"}

\* strings.TrimSpace
RECURSIVE TrimSpace(_)
TrimSpace(s) ==
    IF Len(s) = 0 THEN s
    ELSE IF IsSpace(CharAt(s, 1)) THEN TrimSpace(SubSeq(s, 2, Len(s)))
    ELSE IF IsSpace(CharAt(s, Len(s))) THEN TrimSpace(SubSeq(s, 1, Len(s) - 1))
    ELSE s

\* The place of the first ch in s, 0 if there is none.
IndexOf(s, ch) ==
    IF \E i \in 1..Len(s) : CharAt(s, i) = ch
    THEN CHOOSE i \in 1..Len(s) :
            CharAt(s, i) = ch /\ \A j \in 1..(i - 1) : CharAt(s, j) # ch
    ELSE 0

DigitsOrEmpty(s) == \A i \in 1..Len(s) : IsDigit(CharAt(s, i))

\* strconv.ParseFloat(s, 64) on decimal text: an optional sign, digits with
\* an optional point.  The value is kept in thousandths (ms).
ParseFloat(s) ==
    LET signed == Len(s) > 0 /\ CharAt(s, 1) \in {"+", "-"}
        body == IF signed THEN SubSeq(s, 2, Len(s)) ELSE s
        dot == IndexOf(body, ".")
        ip == IF dot = 0 THEN body ELSE SubSeq(body, 1, dot - 1)
        fp == IF dot = 0 THEN "" ELSE SubSeq(body, dot + 1, Len(body))
        ok == DigitsOrEmpty(ip) /\ DigitsOrEmpty(fp) /\ Len(ip) + Len(fp) > 0
        mag == 1000 * DigitsToNat(ip) + DigitsToNat(SubSeq(fp \o "000", 1, 3))
    IN  [ok |-> ok,
         ms |-> IF ~ok THEN 0 ELSE IF CharAt(s, 1) = "-" THEN 0 - mag ELSE mag]

\* strconv.ParseInt(s, 10, 64) and strconv.Atoi: an optional sign, digits.
ParseInt(s) ==
    LET signed == Len(s) > 0 /\ CharAt(s, 1) \in {"+", "-"}
        body == IF signed THEN SubSeq(s, 2, Len(s)) ELSE s
        ok == AllDigits(body)
    IN  [ok |-> ok,
         n |-> IF ~ok THEN 0
               ELSE IF CharAt(s, 1) = "-" THEN 0 - DigitsToNat(body)
               ELSE DigitsToNat(body)]

Atoi(s) == ParseInt(s)

ProbePath == "video.mp4"

NoError == [kind |-> "nil", text |-> ""]
Errorf(kind, text) == [kind |-> kind, text |-> text]

ZeroInfo ==
    [Path |-> "", Duration |-> 0, Format |-> "", Width |-> 0, Height |-> 0,
     VideoCodec |-> "", AudioCodec |-> "", SampleRate |-> 0, Channels |-> 0,
     Bitrate |-> 0, HasVideo |-> FALSE, HasAudio |-> FALSE]

MkStream(type, name, width, height, rate, channels) ==
    [codec_type |-> type, codec_name |-> name, width |-> width,
     height |-> height, sample_rate |-> rate, channels |-> channels]

\* A loop body that fills the video fields and leaves HasVideo alone.
ProcessStreamNoVideoFlag(info, stream) ==
    CASE stream.codec_type = "video" ->
            [info EXCEPT !.VideoCodec = stream.codec_name,
                         !.Width = stream.width,
                         !.Height = stream.height]
      [] stream.codec_type = "audio" ->
            LET sr == Atoi(stream.sample_rate)
            IN  [info EXCEPT !.HasAudio = TRUE,
                             !.AudioCodec = stream.codec_name,
                             !.Channels = stream.channels,
                             !.SampleRate =
                                IF stream.sample_rate # "" /\ sr.ok THEN sr.n ELSE @]
      [] OTHER -> info

\* One pass of the loop over output.Streams.
ProcessStream(info, stream) ==
    CASE stream.codec_type = "video" ->
            [info EXCEPT !.HasVideo = TRUE,
                         !.VideoCodec = stream.codec_name,
                         !.Width = stream.width,
                         !.Height = stream.height]
      [] stream.codec_type = "audio" ->
            LET sr == Atoi(stream.sample_rate)
            IN  [info EXCEPT !.HasAudio = TRUE,
                             !.AudioCodec = stream.codec_name,
                             !.Channels = stream.channels,
                             !.SampleRate =
                                IF stream.sample_rate # "" /\ sr.ok THEN sr.n ELSE @]
      [] OTHER -> info

RECURSIVE ProcessStreams(_, _)
ProcessStreams(info, streams) ==
    IF streams = <<>> THEN info
    ELSE ProcessStreams(ProcessStream(info, Head(streams)), Tail(streams))

\* "Parse duration": the field stays zero unless the text parses.
ParsedDuration(text) ==
    IF text # "" /\ ParseFloat(text).ok THEN ParseFloat(text).ms ELSE 0

\* "Parse bitrate".
ParsedBitrate(text) ==
    IF text # "" /\ ParseInt(text).ok THEN ParseInt(text).n ELSE 0

\* A Probe that gives up on a duration it cannot parse.
ProbeStrictDuration(f) ==
    IF f.run # "ok"
    THEN [nil |-> TRUE, info |-> ZeroInfo, err |-> Errorf("ffprobe failed", f.stderr)]
    ELSE IF f.decode # "ok" \/ ~ParseFloat(f.format.duration).ok
    THEN [nil |-> TRUE, info |-> ZeroInfo,
          err |-> Errorf("failed to parse ffprobe output", "")]
    ELSE [nil |-> FALSE,
          info |-> ProcessStreams(
                     [ZeroInfo EXCEPT !.Path = ProbePath,
                                      !.Format = f.format.format_name,
                                      !.Duration = ParsedDuration(f.format.duration),
                                      !.Bitrate = ParsedBitrate(f.format.bit_rate)],
                     f.streams),
          err |-> NoError]

\* A Probe that reports a stdout it cannot decode as a failed process.
ProbeOneErrorKind(f) ==
    IF f.run # "ok" \/ f.decode # "ok"
    THEN [nil |-> TRUE, info |-> ZeroInfo, err |-> Errorf("ffprobe failed", f.stderr)]
    ELSE [nil |-> FALSE,
          info |-> ProcessStreams(
                     [ZeroInfo EXCEPT !.Path = ProbePath,
                                      !.Format = f.format.format_name,
                                      !.Duration = ParsedDuration(f.format.duration),
                                      !.Bitrate = ParsedBitrate(f.format.bit_rate)],
                     f.streams),
          err |-> NoError]

\* Probe(path), for what ffprobe answers: [nil, info, err].
Probe(f) ==
    IF f.run # "ok"
    THEN [nil |-> TRUE, info |-> ZeroInfo, err |-> Errorf("ffprobe failed", f.stderr)]
    ELSE IF f.decode # "ok"
    THEN [nil |-> TRUE, info |-> ZeroInfo,
          err |-> Errorf("failed to parse ffprobe output", "")]
    ELSE [nil |-> FALSE,
          info |-> ProcessStreams(
                     [ZeroInfo EXCEPT !.Path = ProbePath,
                                      !.Format = f.format.format_name,
                                      !.Duration = ParsedDuration(f.format.duration),
                                      !.Bitrate = ParsedBitrate(f.format.bit_rate)],
                     f.streams),
          err |-> NoError]

\* What `ffprobe -show_entries format=duration -of default=...` prints.
DurationStdout(f) == f.format.duration \o "\n"

\* A Duration that compares the untrimmed stdout.
FileDurationNoTrim(f) ==
    IF f.run # "ok"
    THEN [d |-> 0, err |-> Errorf("ffprobe failed", f.stderr)]
    ELSE LET durStr == DurationStdout(f)
         IN  IF durStr = "" \/ durStr = "N/A"
             THEN [d |-> 0, err |-> Errorf("duration not available", "")]
             ELSE IF ~ParseFloat(durStr).ok
             THEN [d |-> 0, err |-> Errorf("failed to parse duration", durStr)]
             ELSE [d |-> ParseFloat(durStr).ms, err |-> NoError]

\* Duration(path): [d, err].
FileDuration(f) ==
    IF f.run # "ok"
    THEN [d |-> 0, err |-> Errorf("ffprobe failed", f.stderr)]
    ELSE LET durStr == TrimSpace(DurationStdout(f))
         IN  IF durStr = "" \/ durStr = "N/A"
             THEN [d |-> 0, err |-> Errorf("duration not available", "")]
             ELSE IF ~ParseFloat(durStr).ok
             THEN [d |-> 0, err |-> Errorf("failed to parse duration", durStr)]
             ELSE [d |-> ParseFloat(durStr).ms, err |-> NoError]

\* A Resolution that returns the two dimensions in the other order.
ResolutionSwapped(f) ==
    LET p == Probe(f)
    IN  IF p.err # NoError THEN [width |-> 0, height |-> 0, err |-> p.err]
        ELSE [width |-> p.info.Height, height |-> p.info.Width, err |-> NoError]

\* Resolution(path): [width, height, err].
Resolution(f) ==
    LET p == Probe(f)
    IN  IF p.err # NoError THEN [width |-> 0, height |-> 0, err |-> p.err]
        ELSE [width |-> p.info.Width, height |-> p.info.Height, err |-> NoError]

\* HasAudio(path): [has, err].
HasAudio(f) ==
    LET p == Probe(f)
    IN  IF p.err # NoError THEN [has |-> FALSE, err |-> p.err]
        ELSE [has |-> p.info.HasAudio, err |-> NoError]

\* HasVideo(path): [has, err].
HasVideo(f) ==
    LET p == Probe(f)
    IN  IF p.err # NoError THEN [has |-> FALSE, err |-> p.err]
        ELSE [has |-> p.info.HasVideo, err |-> NoError]

(***************************************************************************)
(* The files probed.                                                       *)
(***************************************************************************)
DurTexts == {"", "N/A", "125.5", "10", "abc"}
BitTexts == {"", "5000000", "N/A", "12.5"}
FormatNames == {"mov,mp4"}
StderrTexts == {"", "No such file or directory"}
StreamVals ==
    {MkStream("video", "h264", 1920, 1080, "", 0),
     MkStream("video", "hevc", 1280, 720, "", 0),
     MkStream("audio", "aac", 0, 0, "44100", 2),
     MkStream("audio", "mp3", 0, 0, "48000", 1),
     MkStream("audio", "ac3", 0, 0, "", 6),
     MkStream("audio", "opus", 0, 0, "abc", 2),
     MkStream("subtitle", "subrip", 0, 0, "", 0)}

StreamLists == UNION {[1..n -> StreamVals] : n \in 0..MaxStreams}

MkFile(run, stderr, decode, format, streams) ==
    [run |-> run, stderr |-> stderr, decode |-> decode, format |-> format,
     streams |-> streams]
MkFormat(name, duration, bitrate) ==
    [format_name |-> name, duration |-> duration, bit_rate |-> bitrate]

\* The process cannot start or exits non-zero; it runs and its stdout does
\* not decode (not JSON at all, or JSON of another shape); it runs and
\* reports.
Files ==
    {MkFile(run, e, "ok", MkFormat("", "", ""), <<>>) :
        run \in {"nostart", "exit"}, e \in StderrTexts}
    \cup {MkFile("ok", "", dec, MkFormat("", d, ""), <<>>) :
        dec \in {"syntax", "type"}, d \in DurTexts}
    \cup {MkFile("ok", "", "ok", MkFormat(n, d, b), ss) :
        n \in FormatNames, d \in DurTexts, b \in BitTexts, ss \in StreamLists}

Returned(op, ret) ==
    /\ last' = [op |-> op, ret |-> ret]
    /\ UNCHANGED <<file, host, cmdVars>>

CallProbe == Returned("Probe", Probe(file))
CallDuration == Returned("Duration", FileDuration(file))
CallResolution == Returned("Resolution", Resolution(file))
CallHasAudio == Returned("HasAudio", HasAudio(file))
CallHasVideo == Returned("HasVideo", HasVideo(file))

ProbeInit ==
    /\ file \in Files
    /\ last = NoCall
    /\ host = NoHost
    /\ c = New
    /\ ncalls = 0
    /\ nbuilt = 0
    /\ args = <<>>
    /\ prevArgs = <<>>
    /\ str = NoString
    /\ ran = NoRun

ProbeNext ==
    \/ CallProbe
    \/ CallDuration
    \/ CallResolution
    \/ CallHasAudio
    \/ CallHasVideo

ProbeSpec == ProbeInit /\ [][ProbeNext]_vars

(***************************************************************************)
(* Claims about the prober (checked under ProbeSpec).                      *)
(***************************************************************************)
\* Decimal text: digits with at most one point among them, an optional sign
\* in front.
IsDecimalText(s) ==
    \E k \in 0..1 :
        /\ Len(s) > k
        /\ k = 1 => CharAt(s, 1) \in {"+", "-"}
        /\ \E i \in (k + 1)..Len(s) : IsDigit(CharAt(s, i))
        /\ \A i \in (k + 1)..Len(s) : IsDigit(CharAt(s, i)) \/ CharAt(s, i) = "."
        /\ Cardinality({i \in (k + 1)..Len(s) : CharAt(s, i) = "."}) <= 1
IsIntegerText(s) == IsDecimalText(s) /\ IndexOf(s, ".") = 0

Reported(f) == f.run = "ok" /\ f.decode = "ok"
StreamsOfType(f, type) == {i \in DOMAIN f.streams : f.streams[i].codec_type = type}
FirstOfType(f, type) ==
    f.streams[CHOOSE i \in StreamsOfType(f, type) : \A j \in StreamsOfType(f, type) : i <= j]
ParsedSampleRate(text) == IF IsIntegerText(text) THEN ParseInt(text).n ELSE 0
ProbeReturned == last.op = "Probe" /\ ~last.ret.nil

\* C4: the video fields of a Probe result (VideoCodec, Width, Height) are
\* those of the first video stream of the report and its audio fields
\* (AudioCodec, Channels, SampleRate) those of the first audio stream; later
\* streams of a type already seen change nothing.
C4_FirstStreamWins ==
    ProbeReturned =>
        /\ StreamsOfType(file, "video") # {} =>
            /\ last.ret.info.VideoCodec = FirstOfType(file, "video").codec_name
            /\ last.ret.info.Width = FirstOfType(file, "video").width
            /\ last.ret.info.Height = FirstOfType(file, "video").height
        /\ StreamsOfType(file, "audio") # {} =>
            /\ last.ret.info.AudioCodec = FirstOfType(file, "audio").codec_name
            /\ last.ret.info.Channels = FirstOfType(file, "audio").channels
            /\ last.ret.info.SampleRate =
                    ParsedSampleRate(FirstOfType(file, "audio").sample_rate)

\* C5: in a Probe result, HasVideo holds exactly when the report has a video
\* stream and without it Width, Height and VideoCodec are zero; HasAudio
\* holds exactly when the report has an audio stream and without it
\* AudioCodec, SampleRate and Channels are zero.
C5_PresenceFlagsConsistent ==
    ProbeReturned =>
        /\ last.ret.info.HasVideo <=> StreamsOfType(file, "video") # {}
        /\ ~last.ret.info.HasVideo =>
            /\ last.ret.info.Width = 0
            /\ last.ret.info.Height = 0
            /\ last.ret.info.VideoCodec = ""
        /\ last.ret.info.HasAudio <=> StreamsOfType(file, "audio") # {}
        /\ ~last.ret.info.HasAudio =>
            /\ last.ret.info.AudioCodec = ""
            /\ last.ret.info.SampleRate = 0
            /\ last.ret.info.Channels = 0

\* C5 witness: a probed report with audio streams and no video stream.
C5_Witness ==
    /\ ProbeReturned
    /\ Len(file.streams) >= 2
    /\ StreamsOfType(file, "video") = {}
    /\ last.ret.info.HasAudio
    /\ ~last.ret.info.HasVideo

\* C6: when ffprobe reports and format.duration (format.bit_rate) is absent,
\* empty or no number, Probe returns a result and no error, with Duration
\* (Bitrate) zero and every other field what it is for the same report with
\* a number there.
C6_UnparsableFieldsLeftZero ==
    (last.op = "Probe" /\ Reported(file)) =>
        /\ ~last.ret.nil
        /\ last.ret.err = NoError
        /\ ~IsDecimalText(file.format.duration) =>
            /\ last.ret.info.Duration = 0
            /\ [last.ret.info EXCEPT !.Duration = 0]
                = [Probe([file EXCEPT !.format.duration = "125.5"]).info
                      EXCEPT !.Duration = 0]
        /\ ~IsDecimalText(file.format.bit_rate) =>
            /\ last.ret.info.Bitrate = 0
            /\ [last.ret.info EXCEPT !.Bitrate = 0]
                = [Probe([file EXCEPT !.format.bit_rate = "5000000"]).info
                      EXCEPT !.Bitrate = 0]
        /\ IsDecimalText(file.format.duration) =>
            last.ret.info.Duration = ParseFloat(file.format.duration).ms

\* C6 witness: a probed report with streams whose duration is no number and
\* whose bit rate is absent.
C6_Witness ==
    /\ ProbeReturned
    /\ file.format.duration = "abc"
    /\ file.format.bit_rate = ""
    /\ last.ret.info.HasVideo
    /\ last.ret.info.HasAudio
    /\ last.ret.info.Duration = 0
    /\ last.ret.info.Bitrate = 0

\* C7: for a file whose duration text, trimmed, is empty or "N/A",
\* Duration(path) returns 0 and a "duration not available" error while
\* Probe(path) on the same report returns no error and a zero Duration; any
\* other text that is no number makes Duration(path) fail with a parse error.
C7_DurationUnavailable ==
    LET text == TrimSpace(file.format.duration)
    IN  /\ (last.op = "Duration" /\ file.run = "ok" /\ text \in {"", "N/A"}) =>
            /\ last.ret.err.kind = "duration not available"
            /\ last.ret.d = 0
        /\ (last.op = "Probe" /\ Reported(file) /\ text \in {"", "N/A"}) =>
            /\ ~last.ret.nil
            /\ last.ret.err = NoError
            /\ last.ret.info.Duration = 0
        /\ (last.op = "Duration" /\ file.run = "ok" /\ text \notin {"", "N/A"}
                /\ ~IsDecimalText(text)) =>
            /\ last.ret.err.kind = "failed to parse duration"
            /\ last.ret.d = 0
        /\ (last.op = "Duration" /\ file.run = "ok" /\ IsDecimalText(text)) =>
            /\ last.ret.err = NoError
            /\ last.ret.d = ParseFloat(text).ms

\* C7 witness: the duration-only query on a file that reports "N/A".
C7_Witness ==
    /\ last.op = "Duration"
    /\ file.run = "ok"
    /\ file.format.duration = "N/A"
    /\ last.ret.err.kind = "duration not available"

\* C8: Resolution, HasAudio and HasVideo return an error exactly when Probe
\* of the same file does (that error, with zero values), and otherwise the
\* Width and Height, HasAudio and HasVideo of the Probe result; with no
\* video stream Resolution returns (0, 0) and no error.
C8_NarrowQueriesFollowProbe ==
    LET p == Probe(file)
        failed == file.run # "ok" \/ file.decode # "ok"
    IN  /\ last.op = "Resolution" =>
            /\ (last.ret.err # NoError) <=> failed
            /\ last.ret.err = p.err
            /\ failed => last.ret.width = 0 /\ last.ret.height = 0
            /\ ~failed => /\ last.ret.width = p.info.Width
                          /\ last.ret.height = p.info.Height
            /\ (~failed /\ StreamsOfType(file, "video") = {}) =>
                last.ret.width = 0 /\ last.ret.height = 0
        /\ last.op = "HasAudio" =>
            /\ (last.ret.err # NoError) <=> failed
            /\ last.ret.err = p.err
            /\ last.ret.has <=> (~failed /\ StreamsOfType(file, "audio") # {})
        /\ last.op = "HasVideo" =>
            /\ (last.ret.err # NoError) <=> failed
            /\ last.ret.err = p.err
            /\ last.ret.has <=> (~failed /\ StreamsOfType(file, "video") # {})

\* C8 witness: Resolution on a report with streams and no video stream.
C8_Witness ==
    /\ last.op = "Resolution"
    /\ Reported(file)
    /\ Len(file.streams) >= 1
    /\ StreamsOfType(file, "video") = {}
    /\ last.ret = [width |-> 0, height |-> 0, err |-> NoError]

\* C9 as stated: Probe returns an error and no result exactly when the
\* process cannot start or exits non-zero ("ffprobe failed", with the
\* stderr text) or when it succeeds and its stdout is not valid JSON
\* ("failed to parse ffprobe output"); otherwise a result and no error.
C9_TwoFailureModes ==
    last.op = "Probe" =>
        /\ file.run # "ok" =>
            last.ret.nil /\ last.ret.err = Errorf("ffprobe failed", file.stderr)
        /\ (file.run = "ok" /\ file.decode = "syntax") =>
            last.ret.nil /\ last.ret.err = Errorf("failed to parse ffprobe output", "")
        /\ ~(file.run # "ok" \/ (file.run = "ok" /\ file.decode = "syntax")) =>
            ~last.ret.nil /\ last.ret.err = NoError

\* C9 amended: the second situation is a stdout that does not decode into
\* the report: text that is not valid JSON, or valid JSON whose values do
\* not have the types of the report's fields.
C9_FailureModes ==
    last.op = "Probe" =>
        /\ file.run # "ok" =>
            last.ret.nil /\ last.ret.err = Errorf("ffprobe failed", file.stderr)
        /\ (file.run = "ok" /\ file.decode \in {"syntax", "type"}) =>
            last.ret.nil /\ last.ret.err = Errorf("failed to parse ffprobe output", "")
        /\ ~(file.run # "ok" \/ (file.run = "ok" /\ file.decode \in {"syntax", "type"})) =>
            ~last.ret.nil /\ last.ret.err = NoError

\* C9 witness: Probe on a file for which ffprobe exits non-zero with text on
\* stderr.
C9_Witness ==
    /\ last.op = "Probe"
    /\ file.run = "exit"
    /\ file.stderr # ""
    /\ last.ret.nil
    /\ last.ret.err.kind = "ffprobe failed"
    /\ last.ret.err.text = file.stderr

(***************************************************************************)
(* Claims about String() (checked under UseSpec).                          *)
(***************************************************************************)
\* The characters that make String() quote an element.
QuotedChars == <<" ", "\t", "\n", "\"", "'">>
HasQuotedChar(e) ==
    \E i \in 1..Len(e) : \E j \in DOMAIN QuotedChars : CharAt(e, i) = QuotedChars[j]

\* The text a quoted body stands for: \" \\ \n \t read back.
RECURSIVE Unescape(_)
Unescape(b) ==
    IF Len(b) = 0 THEN ""
    ELSE IF CharAt(b, 1) = "\\" /\ Len(b) >= 2
    THEN LET x == CharAt(b, 2)
             ch == IF x = "n" THEN "\n" ELSE IF x = "t" THEN "\t" ELSE x
         IN  ch \o Unescape(SubSeq(b, 3, Len(b)))
    ELSE CharAt(b, 1) \o Unescape(SubSeq(b, 2, Len(b)))

\* t is e between double quotes.
Wrapped(t, e) ==
    /\ Len(t) >= 2
    /\ CharAt(t, 1) = "\""
    /\ CharAt(t, Len(t)) = "\""
    /\ Unescape(SubSeq(t, 2, Len(t) - 1)) = e

\* t is how the claim has element e appear.
Shows(t, e) == IF HasQuotedChar(e) THEN Wrapped(t, e) ELSE t = e

\* s is the elements of list, each as Shows has it, with one space between.
RECURSIVE ShowsList(_, _)
ShowsList(s, list) ==
    IF Len(list) = 0 THEN s = ""
    ELSE \E n \in 0..Len(s) :
        /\ Shows(SubSeq(s, 1, n), Head(list))
        /\ IF Len(list) = 1 THEN n = Len(s)
           ELSE /\ n < Len(s)
                /\ CharAt(s, n + 1) = " "
                /\ ShowsList(SubSeq(s, n + 2, Len(s)), Tail(list))

\* C11: String() is "ffmpeg " followed by the elements of the list its Build()
\* returns, in order, one space between; an element with a space, tab,
\* newline, double quote or single quote stands between quotes, any other
\* element stands bare and unchanged.
C11_StringQuotesBuild ==
    str # NoString =>
        /\ SubSeq(str, 1, 7) = "ffmpeg "
        /\ \E order \in RangeOrders(c.metadata) :
               ShowsList(SubSeq(str, 8, Len(str)), BuildArgs(c, order))

\* C11 witness: String() on a Command whose input path has a space, next to
\* bare elements.
C11_Witness ==
    str = "ffmpeg -y -i \"my video.mp4\" -c:v libx264 output.mp4"

\* C11 witness of the README line: nothing to quote.
C11_ReadmeLine ==
    str = "ffmpeg -y -i input.mp4 -c:v libx264 output.mp4"

(***************************************************************************)
(* Claims about Run() (checked under UseSpec).                             *)
(***************************************************************************)
\* What a returned Run() shows: nil exactly for a process that started and
\* exited zero, otherwise the one "ffmpeg failed" error with the stderr text;
\* at most one process; the list handed to it is a Build() of the Command.
RunReturned ==
    ran # NoRun =>
        /\ ran.err.kind = "nil" <=> ran.outcome = "exit0"
        /\ ran.err.kind # "nil" =>
               ran.err.kind = "ffmpeg failed" /\ ran.err.text = ran.stderr
        /\ ran.started <= 1
        /\ ran.outcome = "exit0" => ran.started = 1
        /\ \E order \in RangeOrders(c.metadata) : ran.argv = BuildArgs(c, order)

\* A step that returns from Run() leaves the Command as it was.
RunKeepsCommand == (ran' # ran /\ ran' # NoRun) => c' = c

\* C17: Run() renders with Build(), starts one ffmpeg process and returns nil
\* exactly when it starts and exits zero; a process that does not start,
\* exits non-zero or is killed by cancellation gives one "ffmpeg failed" error
\* carrying the stderr text; no retry, at most one process per call, and no
\* field of the Command changes.
C17_RunOnce == [](RunReturned) /\ [][RunKeepsCommand]_vars

\* C17 witness: a Run() killed by cancellation, with text on stderr, on a
\* Command with an input and an output path.
C17_Witness ==
    /\ ran # NoRun
    /\ ran.outcome = "killed"
    /\ ran.stderr # ""
    /\ ran.err.kind = "ffmpeg failed"
    /\ Len(c.inputs) = 1
    /\ c.outputPath # ""
    /\ Len(ran.argv) >= 4

(***************************************************************************)
(* Claims about CRF (checked under Spec).                                  *)
(***************************************************************************)
\* The documented range of CRF values is 0..MaxCRF.
MaxCRF == 51

\* In list a the word flag is immediately followed by the word value.
FollowedBy(a, flag, value) ==
    \E i \in 1..(Len(a) - 1) : a[i] = flag /\ a[i + 1] = value

\* C19: for every crf of the documented range 0..51, on every Command the
\* builder reaches, Build() after CRF(crf) returns a list in which -crf is
\* immediately followed by the decimal text of crf.
C19_CRFRendered ==
    \A crf \in 0..MaxCRF : \A order \in RangeOrders(c.metadata) :
        FollowedBy(BuildArgs(SetCRF(c, crf), order), "-crf", Itoa(crf))

(***************************************************************************)
(* Claims about what a builder call changes (checked under Spec).          *)
(***************************************************************************)
\* The fields of the Command a step changes.
Changed == {f \in DOMAIN c : c'[f] # c[f]}

\* The fields that a setter of their own sets, alone.
ScalarFields ==
    {"outputPath", "videoBitrate", "audioBitrate", "fps", "crf", "preset",
     "pixelFormat", "audioRate", "channels", "duration", "startTime",
     "noAudio", "noVideo", "overwrite", "filterVideo", "filterAudio",
     "filterComplex"}

\* b is a with more elements at its end.
Appended(a, b) == Len(b) > Len(a) /\ SubSeq(b, 1, Len(a)) = a

\* m2 is m1 with one key set: at most one new key, every other key as it was.
OneKeySet(m1, m2) ==
    \E key \in DOMAIN m2 :
        /\ DOMAIN m2 = DOMAIN m1 \cup {key}
        /\ \A k \in DOMAIN m1 \ {key} : m2[k] = m1[k]

\* A step changes the fields of one method only, the way that method does.
OneMethodsFields ==
    \/ c' = c
    \/ \E changed \in {Changed} :
           \/ \E f \in ScalarFields : changed = {f}
           \/ changed \subseteq {"width", "height"}
           \/ changed \subseteq {"videoCodec", "copyVideo"}
           \/ changed \subseteq {"audioCodec", "copyAudio"}
           \/ /\ changed = {"inputs"}
              /\ Appended(c.inputs, c'.inputs)
              /\ Len(c'.inputs) = Len(c.inputs) + 1
           \/ changed = {"extraArgs"} /\ Appended(c.extraArgs, c'.extraArgs)
           \/ changed = {"metadata"} /\ OneKeySet(c.metadata, c'.metadata)

\* A rendered list holds one -metadata pair for each key of the map.
OnePairPerKey ==
    nbuilt > 0 => Count(args, "-metadata") = Cardinality(DOMAIN c.metadata)

\* C20: every builder call acts on the one Command and changes only its own
\* option: a scalar setter its one field, Size width and height,
\* VideoCodec/CopyVideo videoCodec and copyVideo, AudioCodec/CopyAudio
\* audioCodec and copyAudio, an Input* call one more entry after the inputs
\* there were, Args more words after the passthrough words there were,
\* Metadata one key of the map, so that a repeated key keeps a single pair.
C20_OwnOptionOnly == [](OnePairPerKey) /\ [][OneMethodsFields]_vars

\* C20 witness: a list rendered after FPS, Size and Metadata calls, with the
\* frame rate of before the Size call still in it.
C20_Witness ==
    /\ ncalls = 3
    /\ nbuilt > 0
    /\ c = [New EXCEPT !.fps = 30, !.width = 1920, !.height = 1080,
                       !.metadata = [k \in {"title"} |-> "x"]]
    /\ FollowedBy(args, "-r", "30")
    /\ FollowedBy(args, "-s", "1920x1080")
    /\ FollowedBy(args, "-metadata", "title=x")

(***************************************************************************)
(* The encoder queries.  `host` is the machine: runtime.GOOS, and the      *)
(* table that `ffmpeg -hide_banner -encoders` prints there, or no table    *)
(* when the process fails.  A row of the table is a legend row, the        *)
(* separator or an encoder row (flags, name, description); EncodersOutput  *)
(* is the text ffmpeg prints for it, which is all the code sees.           *)
(***************************************************************************)
MaxRows == 2

LegendRow(flags, meaning) == [kind |-> "legend", flags |-> flags, desc |-> meaning]
SeparatorRow == [kind |-> "separator"]
EncoderRow(flags, name, desc) ==
    [kind |-> "encoder", flags |-> flags, name |-> name, desc |-> desc]

\* One row as ffmpeg prints it.
RowText(row) ==
    IF row.kind = "legend" THEN " " \o row.flags \o " = " \o row.desc
    ELSE IF row.kind = "separator" THEN " ------"
    ELSE " " \o row.flags \o " " \o row.name \o "  " \o row.desc

\* The stdout of `ffmpeg -hide_banner -encoders`: a header, then the rows.
RECURSIVE RowsText(_)
RowsText(rows) ==
    IF rows = <<>> THEN ""
    ELSE RowText(Head(rows)) \o "\n" \o RowsText(Tail(rows))

EncodersOutput(h) == "Encoders:\n" \o RowsText(h.rows)

\* strings.Contains
Contains(s, substr) ==
    \E i \in 1..(Len(s) - Len(substr) + 1) : SubSeq(s, i, i + Len(substr) - 1) = substr

\* strings.HasSuffix
HasSuffix(s, suffix) ==
    Len(s) >= Len(suffix) /\ SubSeq(s, Len(s) - Len(suffix) + 1, Len(s)) = suffix

\* strings.Split(s, "\n")
RECURSIVE SplitLines(_)
SplitLines(s) ==
    LET n == IndexOf(s, "\n")
    IN  IF n = 0 THEN <<s>>
        ELSE <<SubSeq(s, 1, n - 1)>> \o SplitLines(SubSeq(s, n + 1, Len(s)))

\* strings.Fields
RECURSIVE Fields(_)
Fields(s) ==
    IF Len(s) = 0 THEN <<>>
    ELSE IF IsSpace(CharAt(s, 1)) THEN Fields(SubSeq(s, 2, Len(s)))
    ELSE LET stops == {i \in 1..Len(s) : IsSpace(CharAt(s, i))}
             n == IF stops = {} THEN Len(s) + 1
                  ELSE CHOOSE i \in stops : \A j \in stops : i <= j
         IN  <<SubSeq(s, 1, n - 1)>> \o Fields(SubSeq(s, n, Len(s)))


MkEncoder(name, desc, type) == [Name |-> name, Description |-> desc, Type |-> type]

CommonEncoders ==
    [H264VideoToolbox |-> MkEncoder("h264_videotoolbox", "Apple VideoToolbox H.264", "hardware"),
     H264NVENC |-> MkEncoder("h264_nvenc", "NVIDIA NVENC H.264", "hardware"),
     H264QSV |-> MkEncoder("h264_qsv", "Intel QuickSync H.264", "hardware"),
     H264AMF |-> MkEncoder("h264_amf", "AMD AMF H.264", "hardware"),
     H264VAAPI |-> MkEncoder("h264_vaapi", "VA-API H.264", "hardware"),
     Libx264 |-> MkEncoder("libx264", "x264 H.264 (software)", "software"),
     HEVCVideoToolbox |-> MkEncoder("hevc_videotoolbox", "Apple VideoToolbox HEVC", "hardware"),
     HEVCNVENC |-> MkEncoder("hevc_nvenc", "NVIDIA NVENC HEVC", "hardware"),
     HEVCQSV |-> MkEncoder("hevc_qsv", "Intel QuickSync HEVC", "hardware"),
     HEVCAMF |-> MkEncoder("hevc_amf", "AMD AMF HEVC", "hardware"),
     HEVCVAAPI |-> MkEncoder("hevc_vaapi", "VA-API HEVC", "hardware"),
     Libx265 |-> MkEncoder("libx265", "x265 HEVC (software)", "software")]

\* EncoderAvailable: the name occurs somewhere in the output of the process.
EncoderAvailable(h, name) ==
    IF h.run # "ok" THEN FALSE ELSE Contains(EncodersOutput(h), name)

hwSuffixes ==
    <<"_videotoolbox", "_nvenc", "_qsv", "_amf", "_vaapi", "_v4l2m2m", "_omx",
      "_cuvid", "_mf">>

\* An isHardwareEncoder that looks for the suffix anywhere in the name.
isHardwareEncoderAnywhere(name) ==
    \E i \in DOMAIN hwSuffixes : Contains(name, hwSuffixes[i])

isHardwareEncoder(name) ==
    \E i \in DOMAIN hwSuffixes : HasSuffix(name, hwSuffixes[i])

\* The entries ListEncoders appends for the lines, in order.
RECURSIVE ParseLines(_)
ParseLines(lines) ==
    IF lines = <<>> THEN <<>>
    ELSE LET line == TrimSpace(Head(lines))
             parts == Fields(SubSeq(line, 8, Len(line)))
         IN  IF Len(line) < 8 \/ CharAt(line, 1) # "V" THEN ParseLines(Tail(lines))
             ELSE IF Len(parts) < 2 THEN ParseLines(Tail(lines))
             ELSE <<MkEncoder(parts[1], Join(Tail(parts), " "),
                              IF isHardwareEncoder(parts[1]) THEN "hardware"
                              ELSE "software")>>
                      \o ParseLines(Tail(lines))

ListEncoders(h) ==
    IF h.run # "ok" THEN [encoders |-> <<>>, err |-> Errorf("exec", "")]
    ELSE [encoders |-> ParseLines(SplitLines(EncodersOutput(h))), err |-> NoError]

\* The first of the candidates that EncoderAvailable finds, or the fallback.
RECURSIVE FirstAvailable(_, _, _)
FirstAvailable(h, candidates, fallback) ==
    IF candidates = <<>> THEN fallback
    ELSE IF EncoderAvailable(h, Head(candidates).Name) THEN Head(candidates)
    ELSE FirstAvailable(h, Tail(candidates), fallback)

\* A switch that tries QuickSync before NVENC on linux.
H264CandidatesQSVFirst(goos) ==
    IF goos = "darwin" THEN <<CommonEncoders.H264VideoToolbox>>
    ELSE IF goos = "linux"
    THEN <<CommonEncoders.H264QSV, CommonEncoders.H264NVENC,
           CommonEncoders.H264VAAPI, CommonEncoders.H264AMF>>
    ELSE IF goos = "windows"
    THEN <<CommonEncoders.H264NVENC, CommonEncoders.H264QSV, CommonEncoders.H264AMF>>
    ELSE <<>>

\* The switch on runtime.GOOS in BestH264Encoder.
H264Candidates(goos) ==
    IF goos = "darwin" THEN <<CommonEncoders.H264VideoToolbox>>
    ELSE IF goos = "linux"
    THEN <<CommonEncoders.H264NVENC, CommonEncoders.H264QSV,
           CommonEncoders.H264VAAPI, CommonEncoders.H264AMF>>
    ELSE IF goos = "windows"
    THEN <<CommonEncoders.H264NVENC, CommonEncoders.H264QSV, CommonEncoders.H264AMF>>
    ELSE <<>>

\* The switch on runtime.GOOS in BestHEVCEncoder.
HEVCCandidates(goos) ==
    IF goos = "darwin" THEN <<CommonEncoders.HEVCVideoToolbox>>
    ELSE IF goos = "linux"
    THEN <<CommonEncoders.HEVCNVENC, CommonEncoders.HEVCQSV,
           CommonEncoders.HEVCVAAPI, CommonEncoders.HEVCAMF>>
    ELSE IF goos = "windows"
    THEN <<CommonEncoders.HEVCNVENC, CommonEncoders.HEVCQSV, CommonEncoders.HEVCAMF>>
    ELSE <<>>

BestH264Encoder(h) == FirstAvailable(h, H264Candidates(h.goos), CommonEncoders.Libx264)
BestHEVCEncoder(h) == FirstAvailable(h, HEVCCandidates(h.goos), CommonEncoders.Libx265)

HardwareEncoderAvailable(h) == BestH264Encoder(h).Type = "hardware"


(***************************************************************************)
(* The machines and the encoder queries called on them.                    *)
(***************************************************************************)
GOOSes == {"darwin", "linux", "windows", "freebsd"}

EncoderTable ==
    {LegendRow("V.....", "Video"),
     SeparatorRow,
     EncoderRow("A....D", "aac", "AAC (Advanced Audio Coding)"),
     EncoderRow("V....D", "libx264rgb", "libx264 H.264 RGB (codec h264)"),
     EncoderRow("V....D", "h264_nvenc", "NVIDIA NVENC H.264 encoder (codec h264)"),
     EncoderRow("V.....", "h264_qsv", "H.264 (Intel Quick Sync Video) (codec h264)"),
     EncoderRow("V....D", "h264_vaapi", "H.264/AVC (VAAPI) (codec h264)"),
     EncoderRow("V....D", "h264_amf", "AMD AMF H.264 Encoder (codec h264)"),
     EncoderRow("V....D", "h264_videotoolbox", "VideoToolbox H.264 Encoder (codec h264)"),
     EncoderRow("V.....", "h264_v4l2m2m", "V4L2 mem2mem H.264 encoder wrapper (codec h264)"),
     EncoderRow("V....D", "hevc_nvenc", "NVIDIA NVENC hevc encoder (codec hevc)"),
     EncoderRow("V.....", "hevc_qsv", "HEVC (Intel Quick Sync Video) (codec hevc)")}

RowLists == UNION {[1..n -> EncoderTable] : n \in 0..MaxRows}

MkHost(goos, run, rows) == [goos |-> goos, run |-> run, rows |-> rows]

Hosts ==
    {MkHost(g, "ok", rows) : g \in GOOSes, rows \in RowLists}
    \cup {MkHost(g, "fail", <<>>) : g \in GOOSes}

\* The names asked of EncoderAvailable and of isHardwareEncoder.
QueryNames == {"libx264", "h264_nvenc", "hevc_qsv"}
ClassifiedNames ==
    {"h264_videotoolbox", "hevc_nvenc", "h264_qsv", "h264_amf", "h264_vaapi",
     "h264_v4l2m2m", "h264_omx", "h264_cuvid", "h264_mf", "libx264", "mpeg4",
     "nvenc_h264", "h264_vaapi_lp"}

CallEncoderAvailable(name) ==
    Returned("EncoderAvailable", [name |-> name, available |-> EncoderAvailable(host, name)])
CallListEncoders == Returned("ListEncoders", ListEncoders(host))
CallBestH264Encoder == Returned("BestH264Encoder", BestH264Encoder(host))
CallBestHEVCEncoder == Returned("BestHEVCEncoder", BestHEVCEncoder(host))
CallHardwareEncoderAvailable ==
    Returned("HardwareEncoderAvailable", HardwareEncoderAvailable(host))
CallIsHardwareEncoder(name) ==
    Returned("isHardwareEncoder", [name |-> name, hardware |-> isHardwareEncoder(name)])

EncoderInit ==
    /\ host \in Hosts
    /\ last = NoCall
    /\ file = NoFile
    /\ c = New
    /\ ncalls = 0
    /\ nbuilt = 0
    /\ args = <<>>
    /\ prevArgs = <<>>
    /\ str = NoString
    /\ ran = NoRun

EncoderNext ==
    \/ \E name \in QueryNames : CallEncoderAvailable(name)
    \/ CallListEncoders
    \/ CallBestH264Encoder
    \/ CallBestHEVCEncoder
    \/ CallHardwareEncoderAvailable
    \/ \E name \in ClassifiedNames : CallIsHardwareEncoder(name)

EncoderSpec == EncoderInit /\ [][EncoderNext]_vars

(***************************************************************************)
(* Claims about the encoder queries (checked under EncoderSpec).           *)
(***************************************************************************)
\* The platform's preference list, by the part of the name after the family.
PlatformPreference(goos) ==
    IF goos = "darwin" THEN <<"videotoolbox">>
    ELSE IF goos = "linux" THEN <<"nvenc", "qsv", "vaapi", "amf">>
    ELSE IF goos = "windows" THEN <<"nvenc", "qsv", "amf">>
    ELSE <<>>

\* The name the claim has the selection return for a codec family.
PreferredName(h, family, software) ==
    LET pref == PlatformPreference(h.goos)
        name(i) == family \o "_" \o pref[i]
        found == {i \in DOMAIN pref : EncoderAvailable(h, name(i))}
    IN  IF found = {} THEN software
        ELSE name(CHOOSE i \in found : \A j \in found : i <= j)

\* An entry of CommonEncoders, named and typed.
IsCommonEncoder(e) ==
    /\ \E f \in DOMAIN CommonEncoders : CommonEncoders[f] = e
    /\ e.Name # ""
    /\ e.Type \in {"hardware", "software"}

\* C12: BestH264Encoder (BestHEVCEncoder) returns the first entry of the
\* platform's preference list for which EncoderAvailable is true, and libx264
\* (libx265) when there is none: videotoolbox on darwin; nvenc, qsv, vaapi, amf
\* on linux; nvenc, qsv, amf on windows; nothing elsewhere.  The result is an
\* entry of CommonEncoders with a name and the type hardware or software.
C12_BestEncoderByPreference ==
    /\ last.op = "BestH264Encoder" =>
        /\ last.ret.Name = PreferredName(host, "h264", "libx264")
        /\ IsCommonEncoder(last.ret)
    /\ last.op = "BestHEVCEncoder" =>
        /\ last.ret.Name = PreferredName(host, "hevc", "libx265")
        /\ IsCommonEncoder(last.ret)

\* C12 witness: on linux, with vaapi listed before qsv and no nvenc, the H.264
\* selection is qsv.
C12_Witness ==
    /\ last.op = "BestH264Encoder"
    /\ host.goos = "linux"
    /\ Len(host.rows) = 2
    /\ host.rows[1].kind = "encoder" /\ host.rows[1].name = "h264_vaapi"
    /\ host.rows[2].kind = "encoder" /\ host.rows[2].name = "h264_qsv"
    /\ last.ret = CommonEncoders.H264QSV

\* The suffixes the claim lists.
HardwareSuffixes ==
    {"_videotoolbox", "_nvenc", "_qsv", "_amf", "_vaapi", "_v4l2m2m", "_omx",
     "_cuvid", "_mf"}
EndsInHardwareSuffix(name) == \E suffix \in HardwareSuffixes : HasSuffix(name, suffix)
TypeByName(name) == IF EndsInHardwareSuffix(name) THEN "hardware" ELSE "software"

\* C13: a name is classified hardware exactly when it ends in one of
\* _videotoolbox, _nvenc, _qsv, _amf, _vaapi, _v4l2m2m, _omx, _cuvid, _mf, and
\* software otherwise; every entry of ListEncoders has its Type by this rule.
C13_HardwareBySuffix ==
    /\ last.op = "isHardwareEncoder" =>
        (last.ret.hardware <=> EndsInHardwareSuffix(last.ret.name))
    /\ last.op = "ListEncoders" =>
        \A i \in DOMAIN last.ret.encoders :
            last.ret.encoders[i].Type = TypeByName(last.ret.encoders[i].Name)

\* C13 witness: a listing with a software and a hardware encoder, typed so.
C13_Witness ==
    /\ last.op = "ListEncoders"
    /\ Len(last.ret.encoders) = 2
    /\ last.ret.encoders[1].Name = "libx264rgb"
    /\ last.ret.encoders[1].Type = "software"
    /\ last.ret.encoders[2].Name = "h264_v4l2m2m"
    /\ last.ret.encoders[2].Type = "hardware"

\* The video encoder rows of the table, in the order of the table.
IsVideoEncoder(row) == row.kind = "encoder" /\ CharAt(row.flags, 1) = "V"
VideoEncoderRows(h) == SelectSeq(h.rows, IsVideoEncoder)

\* C14: when the listing is obtained, ListEncoders returns one entry for each
\* video encoder row (its name and its description), in the order of the
\* listing, and no entry for any other line: header, legend row such as
\* `V..... = Video`, separator, audio encoder row.
C14_ListIsVideoEncoders ==
    (last.op = "ListEncoders" /\ host.run = "ok") =>
        LET rows == VideoEncoderRows(host)
            got == last.ret.encoders
        IN  /\ last.ret.err = NoError
            /\ Len(got) = Len(rows)
            /\ \A i \in DOMAIN rows :
                   got[i].Name = rows[i].name /\ got[i].Description = rows[i].desc

\* The table has an encoder row with exactly this name.
Listed(h, name) ==
    h.run = "ok" /\ \E i \in DOMAIN h.rows :
                        h.rows[i].kind = "encoder" /\ h.rows[i].name = name

\* C15: EncoderAvailable(name) is true exactly when the listing is obtained
\* and has an encoder whose name is exactly `name`, and false when the listing
\* cannot be obtained.
C15_AvailableIffListed ==
    last.op = "EncoderAvailable" =>
        (last.ret.available <=> Listed(host, last.ret.name))

\* C16: HardwareEncoderAvailable is true exactly when the listing is obtained
\* and has at least one encoder classified as hardware, whatever the platform
\* and the codec family.
C16_AnyHardwareEncoder ==
    last.op = "HardwareEncoderAvailable" =>
        (last.ret <=>
            /\ host.run = "ok"
            /\ \E i \in DOMAIN host.rows :
                   /\ host.rows[i].kind = "encoder"
                   /\ EndsInHardwareSuffix(host.rows[i].name))

(***************************************************************************)
(* The version queries.  Here `host` is what `ffmpeg -version` and         *)
(* `ffprobe -version` do on the machine: whether the process runs to a     *)
(* zero exit (run) and what it writes to stdout (out).                     *)
(***************************************************************************)
\* What Version and ProbeVersion return for a process and its error prefix;
\* this one returns the first line as it is.
VersionOfUntrimmed(tool, notFound) ==
    IF tool.run # "ok" THEN [version |-> "", err |-> Errorf(notFound, "")]
    ELSE LET lines == SplitLines(tool.out)
         IN  IF Len(lines) > 0 THEN [version |-> lines[1], err |-> NoError]
             ELSE [version |-> "", err |-> NoError]

\* What Version and ProbeVersion return for a process and its error prefix.
VersionOf(tool, notFound) ==
    IF tool.run # "ok" THEN [version |-> "", err |-> Errorf(notFound, "")]
    ELSE LET lines == SplitLines(tool.out)
         IN  IF Len(lines) > 0 THEN [version |-> TrimSpace(lines[1]), err |-> NoError]
             ELSE [version |-> "", err |-> NoError]

Version(h) == VersionOf(h.ffmpeg, "ffmpeg not found")
ProbeVersion(h) == VersionOf(h.ffprobe, "ffprobe not found")

Available(h) ==
    IF Version(h).err # NoError THEN Version(h).err
    ELSE IF ProbeVersion(h).err # NoError THEN ProbeVersion(h).err
    ELSE NoError

FFmpegAvailable(h) == h.ffmpeg.run = "ok"
FFprobeAvailable(h) == h.ffprobe.run = "ok"

MkTool(run, out) == [run |-> run, out |-> out]

\* What a version process may do: fail to start, exit non-zero, or exit zero
\* after writing a banner, a banner behind blanks, nothing, or a blank line.
ToolRuns(name) ==
    {MkTool(run, "") : run \in {"nostart", "exit"}}
    \cup {MkTool("ok", out) : out \in
            {name \o " version 6.1.1 Copyright (c) 2000-2023\nbuilt with gcc 13\n",
             "  " \o name \o " version 7.0 \r\nbuilt with clang\n",
             name \o " version n5.1",
             "",
             "\n" \o name \o " version 6.0\n"}}

VersionHosts ==
    {[ffmpeg |-> f, ffprobe |-> p] : f \in ToolRuns("ffmpeg"), p \in ToolRuns("ffprobe")}

CallVersion == Returned("Version", Version(host))
CallProbeVersion == Returned("ProbeVersion", ProbeVersion(host))
CallAvailable == Returned("Available", Available(host))
CallFFmpegAvailable == Returned("FFmpegAvailable", FFmpegAvailable(host))
CallFFprobeAvailable == Returned("FFprobeAvailable", FFprobeAvailable(host))

VersionInit ==
    /\ host \in VersionHosts
    /\ last = NoCall
    /\ file = NoFile
    /\ c = New
    /\ ncalls = 0
    /\ nbuilt = 0
    /\ args = <<>>
    /\ prevArgs = <<>>
    /\ str = NoString
    /\ ran = NoRun

VersionNext ==
    \/ CallVersion
    \/ CallProbeVersion
    \/ CallAvailable
    \/ CallFFmpegAvailable
    \/ CallFFprobeAvailable

VersionSpec == VersionInit /\ [][VersionNext]_vars

(***************************************************************************)
(* Claims about the version queries (checked under VersionSpec).           *)
(***************************************************************************)
\* The text of out before its first newline.
FirstLine(out) ==
    IF IndexOf(out, "\n") = 0 THEN out ELSE SubSeq(out, 1, IndexOf(out, "\n") - 1)

\* The process a version query runs.
ToolOf(op) == IF op = "Version" THEN host.ffmpeg ELSE host.ffprobe

\* A returned Version or ProbeVersion: an error exactly when the process does
\* not run to a zero exit; without error, the first line of stdout, trimmed.
VersionReturned ==
    last.op \in {"Version", "ProbeVersion"} =>
        /\ last.ret.err # NoError <=> ToolOf(last.op).run # "ok"
        /\ last.ret.err = NoError =>
               last.ret.version = TrimSpace(FirstLine(ToolOf(last.op).out))

\* A returned Available: nil exactly when both processes run to a zero exit,
\* and the ffmpeg error when ffmpeg fails, whatever ffprobe does.
AvailableReturned ==
    last.op = "Available" =>
        /\ last.ret = NoError <=> (host.ffmpeg.run = "ok" /\ host.ffprobe.run = "ok")
        /\ host.ffmpeg.run # "ok" => last.ret.kind = "ffmpeg not found"
        /\ (host.ffmpeg.run = "ok" /\ host.ffprobe.run # "ok") =>
               last.ret.kind = "ffprobe not found"

RemovalRendered ==
    nbuilt > 0 =>
        /\ c.noVideo => (Count(args, "-vn") = 1 /\ Count(args, "-c:v") = 0)
        /\ c.noAudio => (Count(args, "-an") = 1 /\ Count(args, "-c:a") = 0)

\* No step clears a removal flag.
RemovalStays ==
    /\ c.noVideo => c'.noVideo
    /\ c.noAudio => c'.noAudio

\* C21: once NoVideo() has been called, every later Build() emits -vn and no
\* -c:v selector, whatever VideoCodec or CopyVideo calls come before or after;
\* likewise NoAudio() with -an and -c:a; no builder call clears either flag.
C21_RemovalDominates == [](RemovalRendered) /\ [][RemovalStays]_vars

\* C21 witness: a list rendered after NoVideo, VideoCodec and CopyAudio
\* calls, in any order: -vn stands alone for video, and the audio copy
\* selector is there.
C21_Witness ==
    /\ ncalls = 3
    /\ nbuilt > 0
    /\ c.noVideo
    /\ c.videoCodec = "libx264"
    /\ c.copyAudio
    /\ ~c.noAudio
    /\ Count(args, "-vn") = 1
    /\ Count(args, "-c:v") = 0
    /\ FollowedBy(args, "-c:a", "copy")

(***************************************************************************)
(* Claims about the stream a result describes (checked under ProbeSpec).   *)
(***************************************************************************)
\* The result's video (audio) fields are those of stream s of the report.
VideoFieldsOf(info, s) ==
    /\ info.VideoCodec = s.codec_name
    /\ info.Width = s.width
    /\ info.Height = s.height
AudioFieldsOf(info, s) ==
    /\ info.AudioCodec = s.codec_name
    /\ info.Channels = s.channels
    /\ info.SampleRate = ParsedSampleRate(s.sample_rate)

\* C22: in every Probe result the three audio fields (AudioCodec, Channels,
\* SampleRate) are those of one and the same audio stream of the report, and
\* the three video fields (VideoCodec, Width, Height) those of one and the
\* same video stream, also when some audio streams have an empty or
\* unparsable sample_rate.
C22_FieldsFromOneStream ==
    ProbeReturned =>
        /\ StreamsOfType(file, "video") # {} =>
               \E i \in StreamsOfType(file, "video") :
                   VideoFieldsOf(last.ret.info, file.streams[i])
        /\ StreamsOfType(file, "audio") # {} =>
               \E i \in StreamsOfType(file, "audio") :
                   AudioFieldsOf(last.ret.info, file.streams[i])

=============================================================================
